---- MODULE Spec2Model ----
(***************************************************************************)
(* The attention-to-line-score attribution pipeline of deploy.py:          *)
(* main (attention aggregation, min-max normalisation, the batch loops),   *)
(* clean_special_token_values, get_word_att_scores, get_all_lines_score.   *)
(*                                                                         *)
(* Numbers.  The arrays hold IEEE floats.  A value is modelled exactly as  *)
(* a record [n, d]: the rational n/d when d > 0 (kept in lowest terms),    *)
(* NaN when d = 0 and n = 0 (the result of 0/0), +Inf when d = 0 and       *)
(* n = 1 (x/0 for x > 0).  All inputs are non-negative.                    *)
(*                                                                         *)
(* Glyphs.  A display token is a sequence of glyphs.  "C." stands for the  *)
(* newline glyph U+010A, "c^" for the glyph U+0109 and "G." for the        *)
(* word-boundary glyph U+0120 of the byte-level BPE vocabulary.            *)
(*                                                                         *)
(* Indices are 1-based here and 0-based in the source.                     *)
(***************************************************************************)
EXTENDS Integers, Sequences, FiniteSets, TLC

VARIABLES
    \* main
    attentions,            \* attentions[j][h][q][k], from ort_session.run
    model_tokens,          \* tokenizer.convert_ids_to_tokens of each input
    batch_tokens,
    batch_att_weight_sum,
    att_weight_sum,
    batch_line_scores,
    j,
    i,
    pc,
    result,
    \* get_all_lines_score, run one loop iteration at a time
    word_att_scores,
    score_sum,
    all_lines_score,
    line_idx,
    line,
    li,
    lpc,
    \* clean_special_token_values, applied once and then once more
    all_values,
    padding,
    cpc

mainVars  == <<attentions, model_tokens, batch_tokens, batch_att_weight_sum,
               att_weight_sum, batch_line_scores, j, i, pc, result>>
lineVars  == <<word_att_scores, score_sum, all_lines_score, line_idx, line, li, lpc>>
cleanVars == <<all_values, padding, cpc>>
vars      == <<mainVars, lineVars, cleanVars>>

-----------------------------------------------------------------------------
(* Bounds *)

SeqLen      == 4    \* fixed input length (512 in the source), scaled down
NumHeads    == 2    \* attention matrices per input
BatchSize   == 2    \* inputs per request
MaxTokens   == 4    \* longest (token, score) list given to the line scorer
MaxScore    == 2    \* largest integer-scaled score given to the line scorer
MaxVecLen   == 4    \* longest vector given to the scrubber
MaxVal      == 2    \* largest integer-scaled value given to the scrubber

-----------------------------------------------------------------------------
(* Float values *)

RECURSIVE Gcd(_, _)
Gcd(a, b) == IF b = 0 THEN a ELSE Gcd(b, a % b)

NaN == [n |-> 0, d |-> 0]
Inf == [n |-> 1, d |-> 0]

Rat(a, b) == LET g == Gcd(a, b) IN [n |-> a \div g, d |-> b \div g]
Num(a)    == [n |-> a, d |-> 1]
Zero      == Num(0)

IsNaN(x)    == x.d = 0 /\ x.n = 0
IsInf(x)    == x.d = 0 /\ x.n = 1
IsFinite(x) == x.d > 0

\* Python's  x != 0 : true of NaN and of Inf
NotZero(x) == x.n # 0 \/ x.d = 0

\* x + y
Add(x, y) ==
    IF IsNaN(x) \/ IsNaN(y) THEN NaN
    ELSE IF IsInf(x) \/ IsInf(y) THEN Inf
    ELSE Rat(x.n * y.d + y.n * x.d, x.d * y.d)

\* x - y, for y <= x finite
Sub(x, y) ==
    IF IsNaN(x) \/ IsNaN(y) THEN NaN
    ELSE Rat(x.n * y.d - y.n * x.d, x.d * y.d)

\* x / y : 0/0 is NaN and x/0 is Inf, with no exception raised
Div(x, y) ==
    IF IsNaN(x) \/ IsNaN(y) THEN NaN
    ELSE IF y.n = 0 THEN (IF x.n = 0 THEN NaN ELSE Inf)
    ELSE Rat(x.n * y.d, x.d * y.n)

\* x <= y on finite values
Leq(x, y) == x.n * y.d <= y.n * x.d

\* ndarray.min() and ndarray.max(): NaN if any element is NaN
VecMin(v) ==
    IF \E p \in DOMAIN v : IsNaN(v[p]) THEN NaN
    ELSE CHOOSE m \in {v[p] : p \in DOMAIN v} : \A p \in DOMAIN v : Leq(m, v[p])
VecMax(v) ==
    IF \E p \in DOMAIN v : IsNaN(v[p]) THEN NaN
    ELSE CHOOSE m \in {v[p] : p \in DOMAIN v} : \A p \in DOMAIN v : Leq(v[p], m)

\* element-wise  a + b  of two arrays of one shape
VecAdd(a, b) == [p \in DOMAIN a |-> Add(a[p], b[p])]

-----------------------------------------------------------------------------
(* get_all_lines_score *)

separator == "C."

\* separator in token
ContainsSep(token) == \E g \in DOMAIN token : token[g] = separator

\* The condition of the if at the head of the loop body.
EmitCondAlways(token, isLast, sum) == ContainsSep(token) \/ isLast
EmitCond(token, isLast, sum) ==
    (ContainsSep(token) \/ isLast) /\ NotZero(sum)

\* score_sum += word_att_scores[i][1] in the emitting branch
EmitValueNoOwn(sum, score) == sum
EmitValue(sum, score) == Add(sum, score)

\* The value score_sum is given after a line was emitted.
AfterEmitKeep(sum) == sum
AfterEmit(sum) == Zero

\* One iteration of the loop on the locals st, at token/score pair w.
LineBody(st, w, isLast) ==
    IF EmitCond(w[1], isLast, st.score_sum)
    THEN LET s == EmitValue(st.score_sum, w[2]) IN
         [score_sum       |-> AfterEmit(s),
          all_lines_score |-> Append(st.all_lines_score, s),
          line_idx        |-> st.line_idx + 1,
          line            |-> st.line]
    ELSE IF ~ContainsSep(w[1])
    THEN [score_sum       |-> Add(st.score_sum, w[2]),
          all_lines_score |-> st.all_lines_score,
          line_idx        |-> st.line_idx,
          line            |-> st.line \o w[1]]
    ELSE st

LineStart == [score_sum |-> Zero, all_lines_score |-> <<>>, line_idx |-> 0,
              line |-> <<>>]

RECURSIVE LineLoop(_, _, _)
LineLoop(st, was, k) ==
    IF k > Len(was) THEN st
    ELSE LineLoop(LineBody(st, was[k], k = Len(was)), was, k + 1)

\* The whole function, as main calls it.
get_all_lines_score(was) == LineLoop(LineStart, was, 1).all_lines_score

-----------------------------------------------------------------------------
(* The line scorer, one loop iteration per step, on every bounded input *)

TokX   == <<"x">>
TokSep == <<"}", separator>>
TokenKinds == {TokX, TokSep}

\* The scenario of the line-grouping property, scores scaled by 100.
ExampleTokens == << <<"<s>">>, <<"int">>, <<" x">>, <<"=">>, <<"1">>,
                    <<separator>>, <<"return">>, <<" x">>, <<"</s>">> >>
ExampleScores == <<0, 10, 20, 10, 10, 5, 30, 15, 0>>
ExampleInput  ==
    [k \in 1..Len(ExampleTokens) |-> <<ExampleTokens[k], Num(ExampleScores[k])>>]

LineInputs ==
    {ExampleInput} \cup
    UNION {[1..n -> {<<t, Num(s)>> : t \in TokenKinds, s \in 0..MaxScore}]
             : n \in 1..MaxTokens}

LineLocals == [score_sum |-> score_sum, all_lines_score |-> all_lines_score,
               line_idx |-> line_idx, line |-> line]

LineIter ==
    /\ lpc = "loop"
    /\ li <= Len(word_att_scores)
    /\ LET st == LineBody(LineLocals, word_att_scores[li],
                          li = Len(word_att_scores)) IN
         /\ score_sum' = st.score_sum
         /\ all_lines_score' = st.all_lines_score
         /\ line_idx' = st.line_idx
         /\ line' = st.line
    /\ li' = li + 1
    /\ UNCHANGED <<word_att_scores, lpc>>

LineReturn ==
    /\ lpc = "loop"
    /\ li > Len(word_att_scores)
    /\ lpc' = "done"
    /\ UNCHANGED <<word_att_scores, score_sum, all_lines_score, line_idx, line, li>>

-----------------------------------------------------------------------------
(* clean_special_token_values *)

\* [index for index, item in enumerate(all_values) if item != 0]
NonZeroIdx(v) == {p \in DOMAIN v : NotZero(v[p])}

SetMax(S) == CHOOSE m \in S : \A x \in S : x <= m

\* the index the padding branch zeroes: [...][-1]
LastIdx(S) == SetMax(S)

\* the index the else branch zeroes: all_values[-1]
EndIdx(v) == Len(v)

\* if padding:
PaddingBranchAlways(pad) == TRUE
PaddingBranch(pad) == pad

\* The array is changed in place: values is the array as the call leaves it,
\* raised tells whether the call ended in IndexError.
clean_special_token_values(v, pad) ==
    IF Len(v) = 0 THEN [values |-> v, raised |-> TRUE]
    ELSE LET v0 == [v EXCEPT ![1] = Zero] IN
         IF PaddingBranch(pad)
         THEN IF NonZeroIdx(v0) = {}
              THEN [values |-> v0, raised |-> TRUE]
              ELSE [values |-> [v0 EXCEPT ![LastIdx(NonZeroIdx(v0))] = Zero],
                    raised |-> FALSE]
         ELSE [values |-> [v0 EXCEPT ![EndIdx(v0)] = Zero], raised |-> FALSE]

-----------------------------------------------------------------------------
(* The scrubber applied to every bounded vector, and then to its own result *)

CleanInputs == UNION {[1..n -> {Num(x) : x \in 0..MaxVal}] : n \in 1..MaxVecLen}

CleanOnce ==
    /\ cpc = "start"
    /\ LET r == clean_special_token_values(all_values, padding) IN
         /\ all_values' = r.values
         /\ cpc' = IF r.raised THEN "raised" ELSE "once"
    /\ UNCHANGED padding

CleanTwice ==
    /\ cpc = "once"
    /\ LET r == clean_special_token_values(all_values, padding) IN
         /\ all_values' = r.values
         /\ cpc' = IF r.raised THEN "raised_again" ELSE "twice"
    /\ UNCHANGED padding

-----------------------------------------------------------------------------
(* main: what the tokenizer and the inference session hand to it *)

\* Attention matrices A[q][k], q the query and k the key position: every
\* entry equal; every query attending to the first token; every query
\* attending to the token before it; every query attending to itself and
\* all tokens before it.
HeadUniform == [q \in 1..SeqLen |-> [k \in 1..SeqLen |-> Num(1)]]
HeadFirst   == [q \in 1..SeqLen |-> [k \in 1..SeqLen |->
                   IF k = 1 THEN Num(1) ELSE Num(0)]]
HeadPrev    == [q \in 1..SeqLen |-> [k \in 1..SeqLen |->
                   IF k = q - 1 \/ (q = 1 /\ k = 1) THEN Num(1) ELSE Num(0)]]
HeadCausal  == [q \in 1..SeqLen |-> [k \in 1..SeqLen |->
                   IF k <= q THEN Num(1) ELSE Num(0)]]
HeadKinds   == <<HeadUniform, HeadFirst, HeadPrev, HeadCausal>>

\* The attention of one input: NumHeads matrices, of two kinds in turn.
AttentionInputs ==
    {[h \in 1..NumHeads |-> IF h % 2 = 1 THEN HeadKinds[ab[1]] ELSE HeadKinds[ab[2]]]
       : ab \in {x \in (DOMAIN HeadKinds) \X (DOMAIN HeadKinds) : x[1] <= x[2]}}

\* The tokens of one input as the tokenizer names them: <s>, c content
\* tokens (words and line ends in turn), </s>, then <pad> up to SeqLen.
ContentToken(p) ==
    IF p % 2 = 1 THEN <<"G.", "x">>
    ELSE IF p % 4 = 2 THEN <<"C.">> ELSE <<"c^">>
ModelTokens(c) ==
    [p \in 1..SeqLen |->
        IF p = 1 THEN <<"<s>">>
        ELSE IF p <= c + 1 THEN ContentToken(p - 1)
        ELSE IF p = c + 2 THEN <<"</s>">>
        ELSE <<"<pad>">>]
TokenInputs == {ModelTokens(c) : c \in {n \in {SeqLen - 3, SeqLen - 2} : n >= 1}}

-----------------------------------------------------------------------------
(* main *)

None == <<>>

\* token.replace(old, ""), glyph by glyph
RECURSIVE StripGlyph(_, _)
StripGlyph(token, old) ==
    IF token = <<>> THEN <<>>
    ELSE IF Head(token) = old THEN StripGlyph(Tail(token), old)
    ELSE <<Head(token)>> \o StripGlyph(Tail(token), old)

\* token.replace(old, new)
ReplaceGlyph(token, old, new) ==
    [g \in DOMAIN token |-> IF token[g] = old THEN new ELSE token[g]]

\* the two list comprehensions over the tokens of one input
DisplayTokens(tokens) ==
    [p \in DOMAIN tokens |->
        ReplaceGlyph(StripGlyph(tokens[p], "G."), "c^", "C.")]

\* sum(layer_attention): the builtin sum over the first axis of the matrix,
\* 0 + m[1] + m[2] + ...
RECURSIVE SumRows(_, _, _)
SumRows(m, q, acc) ==
    IF q > Len(m) THEN acc ELSE SumRows(m, q + 1, VecAdd(acc, m[q]))
PySumAxis1(m) ==
    [q \in DOMAIN m |-> SumRows([k \in DOMAIN m[q] |-> <<m[q][k]>>], 1, <<Zero>>)[1]]
PySum(m) == SumRows(m, 1, [k \in DOMAIN m[1] |-> Zero])

\* att_weight_sum -= att_weight_sum.min()
SubMin(v) == LET m == VecMin(v) IN [p \in DOMAIN v |-> Sub(v[p], m)]
\* att_weight_sum /= att_weight_sum.max()
DivMax(v) == LET m == VecMax(v) IN [p \in DOMAIN v |-> Div(v[p], m)]

NormalizeMaxFirst(v) ==
    LET m == VecMax(v) IN [p \in DOMAIN v |-> Div(SubMin(v)[p], m)]
Normalize(v) == DivMax(SubMin(v))

get_word_att_scores(tokens, att_scores) ==
    [p \in 1..Len(tokens) |-> <<tokens[p], att_scores[p]>>]

\* the padding argument main gives the scrubber for an input: padding=True,
\* whatever the tokens of the input are
ScrubPadding(tokens) == TRUE

PrepareTokens ==
    /\ pc = "tokens"
    /\ batch_tokens' = [b \in DOMAIN model_tokens |-> DisplayTokens(model_tokens[b])]
    /\ pc' = "agg"
    /\ UNCHANGED <<attentions, model_tokens, batch_att_weight_sum, att_weight_sum,
                   batch_line_scores, j, i, result>>

\* one iteration of the inner loop over attentions[j]
AggHead ==
    /\ pc = "agg"
    /\ j <= Len(attentions)
    /\ i <= Len(attentions[1])
    /\ LET layer_attention == PySum(attentions[j][i]) IN
         att_weight_sum' = IF att_weight_sum = None THEN layer_attention
                           ELSE VecAdd(att_weight_sum, layer_attention)
    /\ i' = i + 1
    /\ UNCHANGED <<attentions, model_tokens, batch_tokens, batch_att_weight_sum,
                   batch_line_scores, j, pc, result>>

\* the end of one iteration of the outer loop: normalise and append
AggNormalize ==
    /\ pc = "agg"
    /\ j <= Len(attentions)
    /\ i > Len(attentions[1])
    /\ batch_att_weight_sum' = Append(batch_att_weight_sum, Normalize(att_weight_sum))
    /\ att_weight_sum' = None
    /\ j' = j + 1
    /\ i' = 1
    /\ pc' = IF j = Len(attentions) THEN "score" ELSE "agg"
    /\ UNCHANGED <<attentions, model_tokens, batch_tokens, batch_line_scores, result>>

\* one iteration of the loop over batch_att_weight_sum; the scrubber changes
\* batch_att_weight_sum[i] in place, and an IndexError it raises ends main
ScoreInput ==
    /\ pc = "score"
    /\ i <= Len(batch_att_weight_sum)
    /\ LET r == clean_special_token_values(batch_att_weight_sum[i],
                                            ScrubPadding(batch_tokens[i])) IN
         /\ batch_att_weight_sum' = [batch_att_weight_sum EXCEPT ![i] = r.values]
         /\ \/ /\ r.raised
               /\ pc' = "raised"
               /\ UNCHANGED <<batch_line_scores, i>>
            \/ /\ ~r.raised
               /\ batch_line_scores' = Append(batch_line_scores,
                      get_all_lines_score(get_word_att_scores(batch_tokens[i], r.values)))
               /\ i' = i + 1
               /\ UNCHANGED pc
    /\ UNCHANGED <<attentions, model_tokens, batch_tokens, att_weight_sum, j, result>>

Return ==
    /\ pc = "score"
    /\ i > Len(batch_att_weight_sum)
    /\ result' = [returned |-> TRUE, batch_line_scores |-> batch_line_scores]
    /\ pc' = "done"
    /\ UNCHANGED <<attentions, model_tokens, batch_tokens, batch_att_weight_sum,
                   att_weight_sum, batch_line_scores, j, i>>

-----------------------------------------------------------------------------
(* Specifications *)

MainIdle ==
    /\ attentions = <<>> /\ model_tokens = <<>> /\ batch_tokens = <<>>
    /\ batch_att_weight_sum = <<>> /\ att_weight_sum = None
    /\ batch_line_scores = <<>> /\ j = 1 /\ i = 1 /\ pc = "idle"
    /\ result = [returned |-> FALSE, batch_line_scores |-> <<>>]
LineIdle ==
    /\ word_att_scores = <<>> /\ score_sum = Zero /\ all_lines_score = <<>>
    /\ line_idx = 0 /\ line = <<>> /\ li = 1 /\ lpc = "idle"
CleanIdle ==
    /\ all_values = <<>> /\ padding = FALSE /\ cpc = "idle"

\* main on every batch of BatchSize inputs
Init ==
    /\ attentions \in [1..BatchSize -> AttentionInputs]
    /\ model_tokens \in [1..BatchSize -> TokenInputs]
    /\ batch_tokens = <<>>
    /\ batch_att_weight_sum = <<>>
    /\ att_weight_sum = None
    /\ batch_line_scores = <<>>
    /\ j = 1
    /\ i = 1
    /\ pc = "tokens"
    /\ result = [returned |-> FALSE, batch_line_scores |-> <<>>]
    /\ LineIdle
    /\ CleanIdle

Next ==
    \/ (PrepareTokens /\ UNCHANGED <<lineVars, cleanVars>>)
    \/ (AggHead /\ UNCHANGED <<lineVars, cleanVars>>)
    \/ (AggNormalize /\ UNCHANGED <<lineVars, cleanVars>>)
    \/ (ScoreInput /\ UNCHANGED <<lineVars, cleanVars>>)
    \/ (Return /\ UNCHANGED <<lineVars, cleanVars>>)

Spec == Init /\ [][Next]_vars

\* get_all_lines_score on every bounded list of (token, score) pairs
InitLines ==
    /\ word_att_scores \in LineInputs
    /\ score_sum = Zero
    /\ all_lines_score = <<>>
    /\ line_idx = 0
    /\ line = <<>>
    /\ li = 1
    /\ lpc = "loop"
    /\ MainIdle
    /\ CleanIdle

NextLines ==
    \/ (LineIter /\ UNCHANGED <<mainVars, cleanVars>>)
    \/ (LineReturn /\ UNCHANGED <<mainVars, cleanVars>>)

SpecLines == InitLines /\ [][NextLines]_vars

\* clean_special_token_values on every bounded vector, with either flag
InitClean ==
    /\ all_values \in CleanInputs
    /\ padding \in BOOLEAN
    /\ cpc = "start"
    /\ MainIdle
    /\ LineIdle

NextClean ==
    \/ (CleanOnce /\ UNCHANGED <<mainVars, lineVars>>)
    \/ (CleanTwice /\ UNCHANGED <<mainVars, lineVars>>)

SpecClean == InitClean /\ [][NextClean]_vars

-----------------------------------------------------------------------------
(* What the line scorer is to compute, stated on its input alone *)

IsSepAt(w, k)  == ContainsSep(w[k][1])
ScoreAt(w, k)  == w[k][2].n

\* sum of the scores of the non-separator tokens at positions a..b
RECURSIVE SumNonSep(_, _, _)
SumNonSep(w, a, b) ==
    IF a > b THEN 0
    ELSE (IF IsSepAt(w, b) THEN 0 ELSE ScoreAt(w, b)) + SumNonSep(w, a, b - 1)

\* The positions at which a line ends: a separator token or the final
\* token, with a non-separator token of positive score since the line
\* before it ended.
EmitPositions(w) ==
    LET EP[e \in 1..Len(w)] ==
            /\ IsSepAt(w, e) \/ e = Len(w)
            /\ \E k \in 1..(e - 1) :
                  /\ ~IsSepAt(w, k)
                  /\ ScoreAt(w, k) > 0
                  /\ \A f \in k..(e - 1) : ~EP[f]
    IN {e \in 1..Len(w) : EP[e]}

PrevEmit(w, e) ==
    LET S == {f \in EmitPositions(w) : f < e} IN IF S = {} THEN 0 ELSE SetMax(S)

\* the score of the line that ends at e
SegSum(w, e) == SumNonSep(w, PrevEmit(w, e) + 1, e - 1) + ScoreAt(w, e)

\* the scores of the lines that end at or before position upto, in order
ExpectedLines(w, upto) ==
    LET E == {e \in EmitPositions(w) : e <= upto}
        Kth(k) == CHOOSE e \in E : Cardinality({f \in E : f <= e}) = k
    IN [k \in 1..Cardinality(E) |-> Num(SegSum(w, Kth(k)))]

\* maximal runs of non-separator tokens
NonEmptyLines(w) ==
    Cardinality({k \in 1..Len(w) :
                    ~IsSepAt(w, k) /\ (k = 1 \/ IsSepAt(w, k - 1))})
NumSeparators(w) == Cardinality({k \in 1..Len(w) : IsSepAt(w, k)})

LastSeparator(w) ==
    LET S == {k \in 1..Len(w) : IsSepAt(w, k)} IN IF S = {} THEN 0 ELSE SetMax(S)
\* sum of the scores of the tokens after the last separator
TailSum(w) == SumNonSep(w, LastSeparator(w) + 1, Len(w))

-----------------------------------------------------------------------------
(* Claims about get_all_lines_score, under SpecLines *)

\* C1: every emitted line score is the sum of the scores of the
\* non-separator tokens since the previous emission plus the score of the
\* token at which it is emitted; the scenario of the specification yields
\* exactly the two scores 0.55 and 0.45 (55 and 45 at scale 100).
C1_LineGrouping ==
    lpc = "done" =>
        /\ all_lines_score = ExpectedLines(word_att_scores, Len(word_att_scores))
        /\ word_att_scores = ExampleInput => all_lines_score = <<Num(55), Num(45)>>

C1_Witness ==
    /\ lpc = "done"
    /\ word_att_scores = ExampleInput
    /\ all_lines_score = <<Num(55), Num(45)>>

\* C2: when the tokens after the last separator (the final token included)
\* have a nonzero score sum, that sum is emitted as the last line score.
C2_FinalLineFlushed ==
    (lpc = "done" /\ TailSum(word_att_scores) > 0) =>
        /\ Len(all_lines_score) > 0
        /\ all_lines_score[Len(all_lines_score)] = Num(TailSum(word_att_scores))

\* C7: at every point of the loop the number of emitted scores is at most
\* the number of non-empty lines, itself at most the number of separator
\* tokens plus one, and the scores emitted so far are those of the lines
\* ended so far, in the order of their positions.
C7_OrderAndCount ==
    lpc \in {"loop", "done"} =>
        /\ Len(all_lines_score) <= NonEmptyLines(word_att_scores)
        /\ NonEmptyLines(word_att_scores) <= NumSeparators(word_att_scores) + 1
        /\ line_idx = Len(all_lines_score)
        /\ all_lines_score = ExpectedLines(word_att_scores, li - 1)

C7_Witness ==
    /\ lpc = "done"
    /\ Len(all_lines_score) = 2
    /\ NonEmptyLines(word_att_scores) = 2
    /\ NumSeparators(word_att_scores) = 2
    /\ all_lines_score[1] # all_lines_score[2]

\* C8: a separator token reached while the accumulator is zero emits
\* nothing and leaves the accumulator and the output unchanged, and no line
\* is ever emitted from a zero accumulator.
C8_SkipEmptyLine ==
    [][ /\ (lpc = "loop" /\ li <= Len(word_att_scores)
              /\ IsSepAt(word_att_scores, li) /\ ~NotZero(score_sum))
           => (all_lines_score' = all_lines_score /\ score_sum' = score_sum)
        /\ all_lines_score' # all_lines_score => NotZero(score_sum) ]_vars

\* the second of two consecutive separators was passed after the first
\* emitted the one line there is
C8_Witness ==
    /\ li > 3
    /\ IsSepAt(word_att_scores, li - 1)
    /\ IsSepAt(word_att_scores, li - 2)
    /\ ~IsSepAt(word_att_scores, li - 3)
    /\ Len(all_lines_score) = 1
    /\ ~NotZero(score_sum)

-----------------------------------------------------------------------------
(* Claims about clean_special_token_values, under SpecClean *)

\* C3 as stated: with either flag, scrubbing a scrubbed vector again
\* returns it unchanged.
C3_Idempotent ==
    [][cpc = "once" => (all_values' = all_values /\ cpc' = "twice")]_vars

\* C3 amended: scrubbing is idempotent with padding=False; with
\* padding=True the second application zeroes one more value or, when no
\* nonzero value is left, raises.
C3_IdempotentUnpadded ==
    [][cpc = "once" =>
         /\ ~padding => (all_values' = all_values /\ cpc' = "twice")
         /\ padding => (all_values' # all_values \/ cpc' = "raised_again")]_vars

C3_Witness ==
    /\ cpc = "twice"
    /\ ~padding
    /\ \E p \in DOMAIN all_values : NotZero(all_values[p])

\* C5: scrubbing zeroes position 0; with padding=True it zeroes exactly one
\* further position, the highest one holding a nonzero value, which lies
\* before every all-zero suffix, and changes nothing else.
C5_BoundaryZeroing ==
    [][cpc = "start" =>
         /\ all_values'[1] = Zero
         /\ padding =>
              /\ cpc' = "once"
              /\ \E idx \in 2..Len(all_values) :
                    /\ NotZero(all_values[idx])
                    /\ \A p \in (idx + 1)..Len(all_values) : all_values[p] = Zero
                    /\ all_values' = [all_values EXCEPT ![1] = Zero, ![idx] = Zero]]_vars

-----------------------------------------------------------------------------
(* Claims about main, under Spec *)

RECURSIVE SumTo(_, _)
SumTo(f, n) == IF n = 0 THEN 0 ELSE f[n] + SumTo(f, n - 1)

\* over the first nheads matrices of att: the sum over all query positions
\* q of A[q][p], and the sum over all key positions k of A[p][k]
ColumnSums(att, nheads, p) ==
    SumTo([h \in 1..nheads |->
             SumTo([q \in 1..Len(att[h]) |-> att[h][q][p].n], Len(att[h]))], nheads)
RowSums(att, nheads, p) ==
    SumTo([h \in 1..nheads |->
             SumTo([k \in 1..Len(att[h][p]) |-> att[h][p][k].n], Len(att[h][p]))], nheads)

UniformTensor(att) ==
    \A h \in DOMAIN att : \A q \in DOMAIN att[h] : \A k \in DOMAIN att[h][q] :
        att[h][q][k] = att[1][1][1]

NonDegenerate(v) == \E p, q \in DOMAIN v : v[p] # v[q]

\* what main computes for input b when it is the only input of the batch
RECURSIVE AccHeads(_, _)
AccHeads(att, h) ==
    IF h = 1 THEN PySum(att[1]) ELSE VecAdd(AccHeads(att, h - 1), PySum(att[h]))
AloneScrubbed(b) ==
    clean_special_token_values(Normalize(AccHeads(attentions[b], Len(attentions[b]))), TRUE)
AloneLineScores(b) ==
    get_all_lines_score(get_word_att_scores(DisplayTokens(model_tokens[b]),
                                            AloneScrubbed(b).values))

\* C4: an input whose attention tensor is uniform makes main raise nothing,
\* and its line scores are all zero or empty, never NaN or Inf.
C4_DegenerateHandled ==
    \A b \in DOMAIN attentions :
        UniformTensor(attentions[b]) =>
            /\ ~(pc = "raised" /\ i = b)
            /\ b \in DOMAIN batch_line_scores =>
                  \A k \in DOMAIN batch_line_scores[b] : batch_line_scores[b][k] = Zero

\* C6: when input i makes main raise, the line scores of every other input
\* b are still returned, at index b, and are those main computes for b alone.
C6_BatchIndependent ==
    pc = "raised" =>
        \A b \in DOMAIN attentions :
            (b # i /\ ~AloneScrubbed(b).raised) =>
                /\ result.returned
                /\ b \in DOMAIN result.batch_line_scores
                /\ result.batch_line_scores[b] = AloneLineScores(b)

\* C9: normalising an accumulated vector whose values are not all equal
\* gives values in [0, 1], one of them 0 and one of them 1.
C9_NormalizationBound ==
    [][(Len(batch_att_weight_sum') = Len(batch_att_weight_sum) + 1
          /\ NonDegenerate(att_weight_sum)) =>
         LET v == batch_att_weight_sum'[j] IN
           /\ \A p \in DOMAIN v :
                 IsFinite(v[p]) /\ Leq(Zero, v[p]) /\ Leq(v[p], Num(1))
           /\ \E p \in DOMAIN v : v[p] = Zero
           /\ \E p \in DOMAIN v : v[p] = Num(1)]_vars

\* a normalised vector with a value strictly between 0 and 1, whose
\* accumulated minimum was not 0
C9_Witness ==
    /\ pc = "agg"
    /\ Len(batch_att_weight_sum) = 1
    /\ \E p \in DOMAIN batch_att_weight_sum[1] :
          LET x == batch_att_weight_sum[1][p] IN 0 < x.n /\ x.n < x.d
    /\ \A p \in 1..SeqLen : ColumnSums(attentions[1], NumHeads, p) > 0

\* C10 as stated: the accumulated value at p is the sum over the matrices
\* of the row sum at p, p being the query position.
C10_RowSum ==
    (pc = "agg" /\ att_weight_sum # None) =>
        \A p \in DOMAIN att_weight_sum :
            att_weight_sum[p] = Num(RowSums(attentions[j], i - 1, p))

\* C10 amended: for each input the accumulated value at p is the sum over
\* the matrices of the column sum at p, the sum over all query positions q
\* of A[q][p], p being the key position.
C10_ColumnSum ==
    (pc = "agg" /\ att_weight_sum # None) =>
        \A p \in DOMAIN att_weight_sum :
            att_weight_sum[p] = Num(ColumnSums(attentions[j], i - 1, p))

\* all matrices of the last input are accumulated, and its column sums are
\* not its row sums
C10_Witness ==
    /\ pc = "agg"
    /\ j = BatchSize
    /\ i = NumHeads + 1
    /\ \E p \in DOMAIN att_weight_sum :
          /\ att_weight_sum[p] = Num(ColumnSums(attentions[j], NumHeads, p))
          /\ ColumnSums(attentions[j], NumHeads, p) # RowSums(attentions[j], NumHeads, p)

\* whether padding was applied to the input: its tokens end in <pad>
IsPadded(tokens) == \E p \in DOMAIN tokens : tokens[p] = <<"<pad>">>

\* the shape of a vector the normalisation step produces from a vector
\* whose values are not all equal
NormalizedShape(v) ==
    /\ Len(v) >= 2
    /\ \A p \in DOMAIN v : IsFinite(v[p]) /\ Leq(Zero, v[p]) /\ Leq(v[p], Num(1))
    /\ \E p \in DOMAIN v : v[p] = Zero
    /\ \E p \in DOMAIN v : v[p] = Num(1)

\* C11: for an input whose tokens fill the whole length (no padding), the
\* scrubbing main does zeroes position 0 and the last position and changes
\* no other position; the last-nonzero scan is kept for padded inputs.
C11_UnpaddedTrailingBoundary ==
    [][(pc = "score" /\ i <= Len(batch_att_weight_sum) /\ pc' # "raised"
          /\ ~IsPadded(model_tokens[i])) =>
         batch_att_weight_sum'[i] =
             [batch_att_weight_sum[i] EXCEPT ![1] = Zero, ![SeqLen] = Zero]]_vars

\* C12: the scrubbing main does, with padding=True, returns normally on
\* every vector of the shape the normalisation step produces.
C12_ScrubberReturns ==
    [][(pc = "score" /\ i <= Len(batch_att_weight_sum)
          /\ NormalizedShape(batch_att_weight_sum[i])) => pc' # "raised"]_vars

====
